---- MODULE Spec2Model ----
(***************************************************************************)
(* State-machine model of yolov4_pytorch/model/module/layer.py:            *)
(* parse_model (the data-driven model builder), YOLO.__init__ (override,   *)
(* build, 64x64 probe, strides, anchors), YOLO.forward / forward_once (the *)
(* sequential executor with its output buffer) and Detect.forward (grid    *)
(* cache and box decoding).                                                *)
(*                                                                         *)
(* Tensors are modelled by their shape and by the layer that produced them;*)
(* real numbers (strides, anchors, decoded coordinates) are exact fractions*)
(* <<numerator, denominator>> with a positive denominator.                 *)
(***************************************************************************)
EXTENDS Integers, Sequences, FiniteSets, TLC

(* ------------------------------ bounds --------------------------------- *)
\* longest configuration (backbone + head) the builder is given
MaxLayers == 3
\* forward calls made on a constructed network
MaxCalls == 2

(* ------------------------- program constants --------------------------- *)
ProbeSize == 64
Divisor == 8
OutputsPerBox == 5

(* --------------------------- Python helpers ---------------------------- *)
\* s[k] of a Python list is defined for -len(s) <= k < len(s)
InRange(s, k) == -Len(s) <= k /\ k < Len(s)

\* s[k] of a Python list: 0-based, a negative k counts from the end
PyIndex(s, k) == s[(IF k >= 0 THEN k ELSE Len(s) + k) + 1]

RECURSIVE SeqSum(_)
SeqSum(s) == IF s = <<>> THEN 0 ELSE Head(s) + SeqSum(Tail(s))

RECURSIVE Reverse(_)
Reverse(s) == IF s = <<>> THEN <<>> ELSE Append(Reverse(Tail(s)), Head(s))

RECURSIVE Insert(_, _)
Insert(s, v) ==
    IF s = <<>> THEN <<v>>
    ELSE IF v <= Head(s) THEN <<v>> \o s
    ELSE <<Head(s)>> \o Insert(Tail(s), v)

\* sorted(save): ascending, every element kept (duplicates included)
RECURSIVE Sorted(_)
Sorted(s) == IF s = <<>> THEN <<>> ELSE Insert(Sorted(Tail(s)), Head(s))

\* math.ceil(n / d) for d > 0
CeilDiv(n, d) == -((-n) \div d)

(* ------------------------------ fractions ------------------------------ *)
Frac(n, d) == <<n, d>>
FEq(a, b) == a[1] * b[2] = b[1] * a[2]
FLe(a, b) == a[1] * b[2] <= b[1] * a[2]
FMul(a, b) == <<a[1] * b[1], a[2] * b[2]>>
FDiv(a, b) == <<a[1] * b[2], a[2] * b[1]>>
FAdd(a, b) == <<a[1] * b[2] + b[1] * a[2], a[2] * b[2]>>

(* --------------------------- from indices ------------------------------ *)
\* the `from` entry of a layer: an int, a list of ints, or unset
FInt(k) == [t |-> "int", v |-> <<k>>]
FList(s) == [t |-> "list", v |-> s]
FNone == [t |-> "none", v |-> <<>>]

\* the layer whose output forward_once hands over for `from` index x at
\* layer i: the running x for -1, else y[x] of the i outputs kept so far
FwdLayer(i, x) == IF x >= 0 THEN x ELSE i + x

\* x names one of the layers 0..i-1 (or, for -1 at layer 0, the input)
RefersToBuilt(i, x) == x = -1 \/ (0 <= x /\ x < i) \/ (-i <= x /\ x < -1)

(* ------------------------------ modules -------------------------------- *)
ConvKinds == {"Conv", "BottleneckCSP"}
KnownModules == ConvKinds \cup {"BatchNorm2d", "Concat", "Detect", "Maxpool", "Upsample"}

\* eval(module) succeeds exactly for the names imported into layer.py
EvalModuleAnyNameMut(module) == TRUE
EvalModule(module) == module \in KnownModules

\* round() of the fraction n/d >= 0, ties to the even neighbour
PyRound(n, d) ==
    LET q == n \div d
        r == n % d
    IN IF 2 * r < d THEN q
       ELSE IF 2 * r > d THEN q + 1
       ELSE IF q % 2 = 0 THEN q ELSE q + 1

Max(a, b) == IF a >= b THEN a ELSE b

\* number = max(round(number * depth_multiple), 1) if number > 1 else number
DepthGainNoMaxMut(number, dm) ==
    IF number > 1 THEN PyRound(number * dm[1], dm[2]) ELSE number
DepthGain(number, dm) ==
    IF number > 1 THEN Max(PyRound(number * dm[1], dm[2]), 1) ELSE number

\* make_divisible(x, divisor) = ceil(x / divisor) * divisor, x = c * wm
make_divisible(c, wm, divisor) == CeilDiv(c * wm[1], wm[2] * divisor) * divisor

NumAnchors(anchors) == Len(anchors[1]) \div 2

\* num_outputs = num_anchors * (num_classes + 5), num_classes read from the
\* "num_classes" key of the model dict
NumOutputs(c) == NumAnchors(c.anchors) * (c.num_classes + OutputsPerBox)

\* make_divisible(out_channels * width_multiple, 8)
\*     if out_channels != num_outputs else out_channels
WidthScale(c2, no, wm) == IF c2 # no THEN make_divisible(c2, wm, Divisor) ELSE c2

\* Concat: sum([channels[-1 if x == -1 else x + 1] for x in f])
ConcatIdx(x) == IF x = -1 THEN -1 ELSE x + 1

RECURSIVE MapChan(_, _)
MapChan(ch, idx) ==
    IF idx = <<>> THEN <<>> ELSE <<PyIndex(ch, Head(idx))>> \o MapChan(ch, Tail(idx))

ConcatOut(ch, f) == SeqSum(MapChan(ch, [k \in 1..Len(f.v) |-> ConcatIdx(f.v[k])]))

\* Detect: list(reversed([(-1 if j == i else j - 1)
\*                        for j, x in enumerate(channels) if x == num_outputs]))
RECURSIVE DetectScan(_, _, _, _)
DetectScan(ch, j, i, no) ==
    IF j >= Len(ch) THEN <<>>
    ELSE (IF ch[j + 1] = no THEN <<(IF j = i THEN -1 ELSE j - 1)>> ELSE <<>>)
         \o DetectScan(ch, j + 1, i, no)

DetectAuto(ch, i, no) == FList(Reverse(DetectScan(ch, 0, i, no)))

\* Python truthiness of f in `f or ...`: None, [] and 0 are falsy
Truthy(f) == f.t # "none" /\ f.v # <<>> /\ ~(f.t = "int" /\ f.v[1] = 0)

DetectFrom(f, ch, i, no) == IF Truthy(f) THEN f ELSE DetectAuto(ch, i, no)

\* save.extend(x % i for x in ([f] if isinstance(f, int) else f) if x != -1)
SaveKeep(x) == x # -1

SaveNormNoModMut(x, i) == x
SaveNorm(x, i) == x % i

RECURSIVE SaveExtend(_, _)
SaveExtend(v, i) ==
    IF v = <<>> THEN <<>>
    ELSE (IF SaveKeep(Head(v)) THEN <<SaveNorm(Head(v), i)>> ELSE <<>>)
         \o SaveExtend(Tail(v), i)

\* return nn.Sequential(*layers), sorted(save)
ReturnSaveUnsortedMut(save) == save
ReturnSave(save) == Sorted(save)

(* ----------------------- one iteration of parse_model ------------------ *)
\* The loop body for layer i with spec ls, channel list ch and carried
\* out_channels oc: the exception raised ("" when none), and otherwise the
\* normalized from, repeat count, constructor arguments, recorded output
\* channel count and the save-list entries added.
ParseBody(i, ls, ch, oc, no, c) ==
    LET n0 == DepthGain(ls.number, c.depth_multiple)
        k == IF ls.f.v = <<>> THEN 0 ELSE ls.f.v[1]
        isInt == ls.f.t = "int"
        isList == ls.f.t = "list"
        base == [err |-> "", f |-> ls.f, number |-> n0, cin |-> 0, cout |-> 0,
                 csp_n |-> 0, out |-> oc]
        branch ==
            IF ls.module \in ConvKinds THEN
                IF ~isInt THEN [base EXCEPT !.err = "TypeError"]
                ELSE IF ~InRange(ch, k) THEN [base EXCEPT !.err = "IndexError"]
                ELSE [base EXCEPT !.cin = PyIndex(ch, k),
                                  !.cout = WidthScale(ls.c2, no, c.width_multiple),
                                  !.out = WidthScale(ls.c2, no, c.width_multiple),
                                  !.csp_n = IF ls.module = "BottleneckCSP" THEN n0 ELSE 0,
                                  !.number = IF ls.module = "BottleneckCSP" THEN 1 ELSE n0]
            ELSE IF ls.module = "BatchNorm2d" THEN
                IF ~isInt THEN [base EXCEPT !.err = "TypeError"]
                ELSE IF ~InRange(ch, k) THEN [base EXCEPT !.err = "IndexError"]
                ELSE [base EXCEPT !.cin = PyIndex(ch, k)]
            ELSE IF ls.module = "Concat" THEN
                IF ~isList THEN [base EXCEPT !.err = "TypeError"]
                ELSE IF \E j \in 1..Len(ls.f.v) : ~InRange(ch, ConcatIdx(ls.f.v[j]))
                     THEN [base EXCEPT !.err = "IndexError"]
                ELSE [base EXCEPT !.out = ConcatOut(ch, ls.f)]
            ELSE IF ls.module = "Detect" THEN
                [base EXCEPT !.f = DetectFrom(ls.f, ch, i, no)]
            ELSE IF ls.module = "Maxpool" THEN
                base
            ELSE
                IF ~isInt THEN [base EXCEPT !.err = "TypeError"]
                ELSE IF ~InRange(ch, k) THEN [base EXCEPT !.err = "IndexError"]
                ELSE [base EXCEPT !.out = PyIndex(ch, k)]
    IN IF ~EvalModule(ls.module) THEN [base EXCEPT !.err = "NameError"]
       ELSE IF branch.err # "" THEN branch
       ELSE IF branch.f.t = "none" THEN [branch EXCEPT !.err = "TypeError"]
       ELSE IF i = 0 /\ \E j \in 1..Len(branch.f.v) : SaveKeep(branch.f.v[j])
            THEN [branch EXCEPT !.err = "ZeroDivisionError"]
       ELSE branch

(* ------------------------------ tensors -------------------------------- *)
\* a tensor is its shape and the layer that produced it (-1: the input);
\* a Python list of tensors; None (a discarded slot of the output buffer)
T(shape, src) == [k |-> "T", shape |-> shape, src |-> src]
L(items) == [k |-> "L", items |-> items]
NoneV == [k |-> "N"]

\* s[a:b] of a Python sequence, 0 <= a <= b
PySlice(s, a, b) ==
    LET hi == IF b < Len(s) THEN b ELSE Len(s)
    IN IF a >= hi THEN <<>> ELSE [j \in 1..(hi - a) |-> s[a + j]]

(* ------------------------------- Detect -------------------------------- *)
\* torch.zeros(1): the placeholder every scale's grid starts as
ZeroGrid == [shape |-> <<1>>, cells |-> <<>>]

\* _make_grid(nx, ny): yv, xv = meshgrid([arange(ny), arange(nx)]);
\* stack((xv, yv), 2).view((1, 1, ny, nx, 2)): entry [y][x] is (x, y)
MakeGrid(nx, ny) ==
    [shape |-> <<1, 1, ny, nx, 2>>,
     cells |-> [y \in 0..(ny - 1) |-> [x \in 0..(nx - 1) |-> <<x, y>>]]]

\* torch.tensor(anchors).float().view(nl, -1, 2)
AnchorTensor(anchors) ==
    [i \in 1..Len(anchors) |->
        [a \in 1..(Len(anchors[i]) \div 2) |->
            <<Frac(anchors[i][2 * a - 1], 1), Frac(anchors[i][2 * a], 1)>>]]

NoDetect ==
    [exists |-> FALSE, num_classes |-> 0, no |-> 0, nl |-> 0, num_anchors |-> 0,
     stride |-> <<>>, anchors |-> <<>>, anchor_grid |-> <<>>, grid |-> <<>>,
     makes |-> <<>>, training |-> TRUE, export |-> FALSE]

\* Detect.__init__(num_classes, anchors)
DetectInit(num_classes, anchors) ==
    [exists |-> TRUE, num_classes |-> num_classes, no |-> num_classes + OutputsPerBox,
     nl |-> Len(anchors), num_anchors |-> Len(anchors[1]) \div 2,
     stride |-> <<>>, anchors |-> AnchorTensor(anchors),
     anchor_grid |-> AnchorTensor(anchors),
     grid |-> [i \in 1..Len(anchors) |-> ZeroGrid],
     makes |-> [i \in 1..Len(anchors) |-> 0],
     training |-> TRUE, export |-> FALSE]

(* ------------------------------ the state ------------------------------ *)
VARIABLES
    pc,            \* where the program is: start, parse, built, probe, ready, call, failed
    err,           \* the exception that ended construction or the last forward call
    cfg,           \* the model dict (self.config_file) and the channels argument
    classesArg,    \* the classes argument of YOLO.__init__ (0: None)
    lastSpec,      \* parse_model: the loop variables i, (f, number, module, args)
    layers,        \* parse_model: layers (each with its attached i, f, type)
    save,          \* parse_model: save, as extended so far
    channels,      \* parse_model: channels
    out_channels,  \* parse_model: out_channels carried between iterations
    num_outputs,   \* parse_model: num_outputs = num_anchors * (num_classes + 5)
    self_model,    \* YOLO.model (<<>> before it is assigned)
    self_save,     \* YOLO.save
    self_stride,   \* YOLO.stride (<<>>: unset)
    has_model,     \* whether YOLO.model and YOLO.save have been assigned
    det,           \* the fields of the Detect module, self.model[-1]
    fw,            \* forward_once: index of the next layer, x, y, reads of y
    headIn,        \* the argument of the last Detect.forward call
    result,        \* what the last completed forward_once returned
    pending,       \* augmented forward: inputs still to be run
    dec,           \* one entry of the last decoded output z
    calls          \* forward calls made after construction

vars == <<pc, err, cfg, classesArg, lastSpec, layers, save, channels, out_channels,
          num_outputs, self_model, self_save, self_stride, has_model, det, fw, headIn, result,
          pending, dec, calls>>

buildVars == <<layers, save, channels, out_channels, num_outputs>>
selfVars == <<self_model, self_save, self_stride, has_model>>
fwdVars == <<fw, headIn, result, pending, dec, calls>>

NoFrame == [i |-> 0, x |-> NoneV, y |-> <<>>, reads |-> <<>>]
NoDec == [valid |-> FALSE]

(* --------------------------- configurations ---------------------------- *)
Anchors2 == << <<10, 13, 16, 30>>, <<30, 61, 62, 45>> >>

Cfg(nc, anchors, dm, wm, ch) ==
    [num_classes |-> nc, classes |-> 0, anchors |-> anchors,
     depth_multiple |-> dm, width_multiple |-> wm, ch |-> ch]

LayerSpec(f, number, module, c2, s) ==
    [f |-> f, number |-> number, module |-> module, c2 |-> c2, s |-> s]

NoSpec == [i |-> -1, ls |-> LayerSpec(FNone, 0, "", 0, <<1, 1>>)]

InitCommon ==
    /\ pc = "start"
    /\ err = ""
    /\ lastSpec = NoSpec
    /\ layers = <<>>
    /\ save = <<>>
    /\ channels = <<>>
    /\ out_channels = 0
    /\ num_outputs = 0
    /\ self_model = <<>>
    /\ self_save = <<>>
    /\ self_stride = <<>>
    /\ has_model = FALSE
    /\ det = NoDetect
    /\ fw = NoFrame
    /\ headIn = NoneV
    /\ result = NoneV
    /\ pending = <<>>
    /\ dec = NoDec
    /\ calls = 0

(* ---------------------------- YOLO.__init__ ---------------------------- *)
\* if classes: self.config_file['classes'] = classes; then parse_model is
\* entered with channels=[channels]
YoloInit ==
    /\ pc = "start"
    /\ cfg' = IF classesArg # 0 THEN [cfg EXCEPT !.classes = classesArg] ELSE cfg
    /\ channels' = <<cfg.ch>>
    /\ out_channels' = cfg.ch
    /\ num_outputs' = NumOutputs(cfg')
    /\ layers' = <<>>
    /\ save' = <<>>
    /\ pc' = "parse"
    /\ UNCHANGED <<err, classesArg, lastSpec, selfVars, det, fwdVars>>

(* ----------------------------- parse_model ----------------------------- *)
BuiltLayer(i, ls, r) ==
    [i |-> i, f |-> r.f, type |-> ls.module, number |-> r.number,
     cin |-> r.cin, cout |-> r.cout, csp_n |-> r.csp_n, s |-> ls.s]

DetectBuilt == layers # <<>> /\ layers[Len(layers)].type = "Detect"

\* one iteration of the loop over backbone + head, on the entry
\* [from, number, module, args] whose from is of type ft with indices fv; an
\* exception leaves parse_model, and YOLO.__init__, with nothing assigned
ParseLayer(ft, fv, number, module, c2, s) ==
    /\ pc = "parse"
    /\ Len(layers) < MaxLayers
    /\ ~DetectBuilt
    /\ LET i == Len(layers)
           ls == LayerSpec([t |-> ft, v |-> fv], number, module, c2, s)
           r == ParseBody(i, ls, channels, out_channels, num_outputs, cfg)
       IN /\ lastSpec' = [i |-> i, ls |-> ls]
          /\ IF r.err # ""
             THEN /\ pc' = "failed"
                  /\ err' = r.err
                  /\ layers' = <<>>
                  /\ save' = <<>>
                  /\ channels' = <<>>
                  /\ out_channels' = 0
                  /\ det' = NoDetect
                  /\ UNCHANGED num_outputs
             ELSE /\ pc' = "parse"
                  /\ err' = ""
                  /\ layers' = Append(layers, BuiltLayer(i, ls, r))
                  /\ save' = save \o SaveExtend(r.f.v, i)
                  /\ channels' = Append(channels, r.out)
                  /\ out_channels' = r.out
                  /\ UNCHANGED num_outputs
                  /\ det' = IF ls.module = "Detect"
                            THEN DetectInit(cfg.num_classes, cfg.anchors)
                            ELSE det
    /\ UNCHANGED <<cfg, classesArg, selfVars, fwdVars>>

\* return nn.Sequential(*layers), sorted(save), assigned to self.model, self.save
ParseReturn ==
    /\ pc = "parse"
    /\ self_model' = layers
    /\ self_save' = ReturnSave(save)
    /\ has_model' = TRUE
    /\ pc' = "built"
    /\ UNCHANGED <<err, cfg, classesArg, lastSpec, buildVars, self_stride, det, fwdVars>>

(* ------------------------------ the modules ---------------------------- *)
IsT4(v) == v.k = "T" /\ Len(v.shape) = 4

Ok(v) == [err |-> "", val |-> v]
Raise(e) == [err |-> e, val |-> NoneV]

\* a convolution or pooling of stride s: each spatial size n becomes ceil(n / s)
Strided(v, cout, s, src) ==
    T(<<v.shape[1], cout, CeilDiv(v.shape[3], s[1]), CeilDiv(v.shape[4], s[2])>>, src)

\* nn.Sequential of n instances, each constructed with the same (cin, cout, s)
RECURSIVE ConvChain(_, _, _)
ConvChain(v, m, n) ==
    IF n = 0 THEN Ok(v)
    ELSE IF ~IsT4(v) THEN Raise("TypeError")
    ELSE IF v.shape[2] # m.cin THEN Raise("RuntimeError")
    ELSE ConvChain(Strided(v, m.cout, m.s, m.i), m, n - 1)

RECURSIVE PoolChain(_, _, _)
PoolChain(v, m, n) ==
    IF n = 0 THEN Ok(v)
    ELSE IF ~IsT4(v) THEN Raise("TypeError")
    ELSE PoolChain(Strided(v, v.shape[2], m.s, m.i), m, n - 1)

\* m_ = nn.Sequential(*[module(*args) for _ in range(number)]) if number > 1
\*      else module(*args)
Instances(m) == IF m.number > 1 THEN m.number ELSE 1

\* Concat.forward: torch.cat(x, 1) of a list of 4-D tensors equal in all but channels
ConcatForward(v, src) ==
    IF v.k # "L" \/ v.items = <<>> THEN Raise("TypeError")
    ELSE IF \E j \in 1..Len(v.items) : ~IsT4(v.items[j]) THEN Raise("TypeError")
    ELSE IF \E j \in 1..Len(v.items) :
               \/ v.items[j].shape[1] # v.items[1].shape[1]
               \/ v.items[j].shape[3] # v.items[1].shape[3]
               \/ v.items[j].shape[4] # v.items[1].shape[4]
         THEN Raise("RuntimeError")
    ELSE Ok(T(<<v.items[1].shape[1],
                SeqSum([j \in 1..Len(v.items) |-> v.items[j].shape[2]]),
                v.items[1].shape[3], v.items[1].shape[4]>>, src))

(* ---------------------------- Detect.forward --------------------------- *)
\* if self.grid[i].shape[2:4] != x[i].shape[2:4]
GridStaleHeightOnlyMut(g, xi) == PySlice(g.shape, 2, 3) # PySlice(xi.shape, 2, 3)
GridStale(g, xi) == PySlice(g.shape, 2, 4) # PySlice(xi.shape, 2, 4)

\* the loop over the nl scales, from scale i on: x[i] is viewed as
\* (bs, na, no, ny, nx) and permuted to (bs, na, ny, nx, no); in inference
\* the grid of scale i is rebuilt when its size differs
RECURSIVE DetectLoop(_, _, _, _)
DetectLoop(d, items, i, src) ==
    IF i > d.nl THEN [err |-> "", det |-> d, items |-> items]
    ELSE IF Len(items) < i THEN [err |-> "IndexError", det |-> d, items |-> items]
    ELSE IF ~IsT4(items[i]) THEN [err |-> "AttributeError", det |-> d, items |-> items]
    ELSE IF items[i].shape[2] # d.num_anchors * d.no
         THEN [err |-> "RuntimeError", det |-> d, items |-> items]
    ELSE LET sh == items[i].shape
             xi == T(<<sh[1], d.num_anchors, sh[3], sh[4], d.no>>, src)
             d1 == IF ~d.training /\ GridStale(d.grid[i], xi)
                   THEN [d EXCEPT !.grid[i] = MakeGrid(sh[4], sh[3]),
                                  !.makes[i] = @ + 1]
                   ELSE d
         IN DetectLoop(d1, [items EXCEPT ![i] = xi], i + 1, src)

\* rows of torch.cat(z, 1): the sum over the scales of na * ny * nx
ZRows(d, items) ==
    SeqSum([i \in 1..d.nl |-> d.num_anchors * items[i].shape[3] * items[i].shape[4]])

\* Detect.forward(x): the exception, the module's fields afterwards and the
\* value returned (x in training, (torch.cat(z, 1), x) in inference)
DetectFieldsRescaleMut(d) ==
    [d EXCEPT !.training = d.training \/ d.export,
              !.anchors = IF d.stride = <<>> THEN d.anchors
                          ELSE [i \in 1..Len(d.anchors) |->
                                   [a \in 1..Len(d.anchors[i]) |->
                                       <<FDiv(d.anchors[i][a][1], d.stride[i]),
                                         FDiv(d.anchors[i][a][2], d.stride[i])>>]]]
DetectFields(d) == [d EXCEPT !.training = d.training \/ d.export]

DetectForward(d, v, src) ==
    LET d0 == DetectFields(d)
    IN IF v.k = "N" THEN [err |-> "TypeError", det |-> d0, val |-> NoneV]
       ELSE IF v.k # "L" THEN [err |-> "ValueError", det |-> d0, val |-> NoneV]
       ELSE LET r == DetectLoop(d0, v.items, 1, src)
            IN IF r.err # "" THEN [err |-> r.err, det |-> r.det, val |-> NoneV]
               ELSE [err |-> "", det |-> r.det,
                     val |-> IF r.det.training THEN L(r.items)
                             ELSE [k |-> "P",
                                   z |-> T(<<r.items[1].shape[1], ZRows(r.det, r.items),
                                             r.det.no>>, src),
                                   x |-> L(r.items)]]

(* ------------------------------ decoding ------------------------------- *)
\* an entry of the head's output: scale i, anchor a, cell (gy, gx), and the
\* raw values t = (tx, ty, tw, th) the feature map holds there
Ob(i, a, gy, gx, t) == [i |-> i, a |-> a, gy |-> gy, gx |-> gx, t |-> t]
NoOb == Ob(1, 1, 0, 0, <<0, 0, 0, 0>>)

\* y = x[i].sigmoid() on five sample inputs: saturated low, -ln 3, 0, ln 3,
\* saturated high, where the sigmoid is 0, 1/4, 1/2, 3/4 and 1
RawVals == -2..2
Sigmoid(t) == Frac(t + 2, 4)

Two == Frac(2, 1)
MinusHalf == Frac(-1, 2)

\* y[..., 0:2] = (y[..., 0:2] * 2. - 0.5 + self.grid[i]) * self.stride[i]
DecodeXYNoOffsetMut(sg, g, stride) == FMul(FAdd(FMul(sg, Two), Frac(g, 1)), stride)
DecodeXY(sg, g, stride) ==
    FMul(FAdd(FAdd(FMul(sg, Two), MinusHalf), Frac(g, 1)), stride)

\* y[..., 2:4] = (y[..., 2:4] * 2) ** 2 * self.anchor_grid[i]
DecodeWH(sg, anchor) == FMul(FMul(FMul(sg, Two), FMul(sg, Two)), anchor)

\* the entry of the decoded output for scale ob.i, anchor ob.a, cell
\* (ob.gy, ob.gx), whose raw values are ob.t = (tx, ty, tw, th)
DecodeEntry(d, ob) ==
    LET cell == d.grid[ob.i].cells[ob.gy][ob.gx]
    IN [valid |-> TRUE, i |-> ob.i, a |-> ob.a, gy |-> ob.gy, gx |-> ob.gx,
        x |-> DecodeXY(Sigmoid(ob.t[1]), cell[1], d.stride[ob.i]),
        y |-> DecodeXY(Sigmoid(ob.t[2]), cell[2], d.stride[ob.i]),
        w |-> DecodeWH(Sigmoid(ob.t[3]), d.anchor_grid[ob.i][ob.a][1]),
        h |-> DecodeWH(Sigmoid(ob.t[4]), d.anchor_grid[ob.i][ob.a][2])]

ObInRange(d, ob) ==
    /\ ob.i <= d.nl
    /\ ob.a <= d.num_anchors
    /\ Len(d.grid[ob.i].shape) = 5
    /\ ob.gy < d.grid[ob.i].shape[3]
    /\ ob.gx < d.grid[ob.i].shape[4]

(* ----------------------------- forward_once ---------------------------- *)
\* x = y[m.f] if isinstance(m.f, int) else [x if j == -1 else y[j] for j in m.f]
\* (skipped when m.f == -1): the exception, the input handed to the layer
\* and the slots of y that were read
Read(i, j, y) == [layer |-> i, j |-> j, slot |-> PyIndex(y, j)]

RECURSIVE Gather(_, _, _, _)
Gather(i, fv, x, y) ==
    IF fv = <<>> THEN <<>>
    ELSE <<(IF Head(fv) = -1 THEN x ELSE PyIndex(y, Head(fv)))>> \o Gather(i, Tail(fv), x, y)

RECURSIVE Reads(_, _, _)
Reads(i, fv, y) ==
    IF fv = <<>> THEN <<>>
    ELSE (IF Head(fv) = -1 THEN <<>> ELSE <<Read(i, Head(fv), y)>>) \o Reads(i, Tail(fv), y)

Resolve(m, x, y) ==
    IF m.f = FInt(-1) THEN [err |-> "", x |-> x, reads |-> <<>>]
    ELSE IF \E j \in 1..Len(m.f.v) : m.f.v[j] # -1 /\ ~InRange(y, m.f.v[j])
         THEN [err |-> "IndexError", x |-> NoneV, reads |-> <<>>]
    ELSE IF m.f.t = "int"
         THEN [err |-> "", x |-> PyIndex(y, m.f.v[1]), reads |-> Reads(m.i, m.f.v, y)]
    ELSE [err |-> "", x |-> L(Gather(m.i, m.f.v, x, y)), reads |-> Reads(m.i, m.f.v, y)]

\* x = m(x)
RunModule(m, v, d) ==
    IF m.type = "Detect" THEN DetectForward(d, v, m.i)
    ELSE LET r == IF m.type \in ConvKinds THEN ConvChain(v, m, Instances(m))
                  ELSE IF m.type = "BatchNorm2d" THEN
                       (IF ~IsT4(v) THEN Raise("TypeError")
                        ELSE IF v.shape[2] # m.cin THEN Raise("RuntimeError")
                        ELSE Ok(T(v.shape, m.i)))
                  ELSE IF m.type = "Concat" THEN ConcatForward(v, m.i)
                  ELSE IF m.type = "Maxpool" THEN PoolChain(v, m, Instances(m))
                  ELSE (IF ~IsT4(v) THEN Raise("TypeError")
                        ELSE Ok(T(<<v.shape[1], v.shape[2],
                                    v.shape[3] * m.s[1], v.shape[4] * m.s[2]>>, m.i)))
         IN [err |-> r.err, det |-> d, val |-> r.val]

\* y.append(x if m.i in self.save else None)
InSave(i, sv) == \E j \in 1..Len(sv) : sv[j] = i
Keep(x, i, sv) == IF InSave(i, sv) THEN x ELSE NoneV

Frame(sz) == [i |-> 0, x |-> T(<<1, cfg.ch, sz[1], sz[2]>>, -1), y |-> <<>>, reads |-> <<>>]

\* an exception inside forward: it ends construction during the probe, and
\* only the call afterwards
Abort(e) ==
    /\ err' = e
    /\ pc' = IF pc = "probe" THEN "failed" ELSE "ready"
    /\ pending' = <<>>

\* one iteration of `for m in self.model`; of what the detection head
\* decodes, one entry out of obs is observed
ForwardStep(obs) ==
    /\ pc \in {"probe", "call"}
    /\ fw.i < Len(self_model)
    /\ LET m == self_model[fw.i + 1]
           res == Resolve(m, fw.x, fw.y)
           run == RunModule(m, res.x, det)
       IN \E ob \in (IF m.type = "Detect" /\ ~run.det.training THEN obs ELSE {NoOb}) :
          IF res.err # ""
          THEN /\ Abort(res.err)
               /\ fw' = [fw EXCEPT !.reads = res.reads]
               /\ UNCHANGED <<det, headIn, dec>>
          ELSE /\ headIn' = IF m.type = "Detect" THEN res.x ELSE headIn
               /\ det' = run.det
               /\ dec' = IF m.type = "Detect" /\ run.err = "" /\ ~run.det.training
                            /\ ObInRange(run.det, ob)
                         THEN DecodeEntry(run.det, ob) ELSE NoDec
               /\ IF run.err # ""
                  THEN /\ Abort(run.err)
                       /\ fw' = [fw EXCEPT !.reads = res.reads]
                  ELSE /\ fw' = [i |-> fw.i + 1, x |-> run.val,
                                 y |-> Append(fw.y, Keep(run.val, m.i, self_save)),
                                 reads |-> res.reads]
                       /\ UNCHANGED <<pc, err, pending>>
    /\ UNCHANGED <<cfg, classesArg, lastSpec, buildVars, selfVars, result, calls>>

(* --------------------- YOLO.__init__ after the build ------------------- *)
\* m = self.model[-1]; the probe: self.forward(torch.zeros(1, channels, 64, 64))
ProbeStart ==
    /\ pc = "built"
    /\ IF self_model = <<>>
       THEN /\ pc' = "failed"
            /\ err' = "IndexError"
            /\ UNCHANGED fw
       ELSE /\ pc' = "probe"
            /\ fw' = Frame(<<ProbeSize, ProbeSize>>)
            /\ UNCHANGED err
    /\ UNCHANGED <<cfg, classesArg, lastSpec, buildVars, selfVars, det, headIn, result,
                   pending, dec, calls>>

\* what `for x in self.forward(...)` iterates over: the list Detect returns
\* in training, or the batch rows of a tensor
ProbeItems(r) ==
    IF r.k = "L" THEN r.items
    ELSE [b \in 1..r.shape[1] |-> T(Tail(r.shape), r.src)]

\* m.stride = torch.tensor([64 / x.shape[-2] for x in self.forward(...)])
StrideOfHeightMut(x) == Frac(ProbeSize, x.shape[3])
StrideOf(x) == Frac(ProbeSize, PyIndex(x.shape, -2))

Strides(r) == [j \in 1..Len(ProbeItems(r)) |-> StrideOf(ProbeItems(r)[j])]

\* m.anchors /= m.stride.view(-1, 1, 1)
ScaleAnchors(anchors, stride) ==
    [i \in 1..Len(anchors) |->
        [a \in 1..Len(anchors[i]) |->
            <<FDiv(anchors[i][a][1], stride[i]), FDiv(anchors[i][a][2], stride[i])>>]]

\* _initialize_biases: for f, s in zip(module.f, module.stride):
\*     mi = self.model[f % module.i]; b = mi.bias.view(module.num_anchors, -1)
\* raises when module.i is 0 or when a source has no bias (only nn.Conv2d,
\* which "Conv" stands for, and BatchNorm2d have one)
BiasError(model) ==
    LET m == model[Len(model)]
    IN IF m.f.v = <<>> THEN ""
       ELSE IF m.i = 0 THEN "ZeroDivisionError"
       ELSE IF \E j \in 1..Len(m.f.v) :
                  LET mi == model[(m.f.v[j] % m.i) + 1]
                  IN mi.type \notin {"Conv", "BatchNorm2d"} \/ mi.number > 1
            THEN "AttributeError"
       ELSE ""

\* the probe has returned: strides, anchors, self.stride, biases
BuildStrides ==
    /\ pc = "probe"
    /\ fw.i = Len(self_model)
    /\ LET m == self_model[Len(self_model)]
           st == Strides(fw.x)
           e == IF m.type # "Detect" THEN "AttributeError"
                ELSE IF Len(st) # det.nl THEN "RuntimeError"
                ELSE BiasError(self_model)
       IN /\ result' = fw.x
          /\ IF m.type # "Detect" \/ Len(st) # det.nl
             THEN UNCHANGED <<det, self_stride>>
             ELSE /\ det' = [det EXCEPT !.stride = st,
                                        !.anchors = ScaleAnchors(det.anchors, st)]
                  /\ self_stride' = st
          /\ err' = e
          /\ pc' = IF e = "" THEN "ready" ELSE "failed"
    /\ UNCHANGED <<cfg, classesArg, lastSpec, buildVars, self_model, self_save,
                   has_model, fw, headIn, pending, dec, calls>>

(* ------------------------- after construction -------------------------- *)
\* model.train() / model.eval()
SetTraining(b) ==
    /\ pc = "ready"
    /\ det.training # b
    /\ det' = [det EXCEPT !.training = b]
    /\ UNCHANGED <<pc, err, cfg, classesArg, lastSpec, buildVars, selfVars, fwdVars>>

\* m.export = True, as an ONNX export sets it
SetExport ==
    /\ pc = "ready"
    /\ ~det.export
    /\ det' = [det EXCEPT !.export = TRUE]
    /\ UNCHANGED <<pc, err, cfg, classesArg, lastSpec, buildVars, selfVars, fwdVars>>

\* YOLO.forward(x, augment): forward_once(x), and with augment two more on
\* rescaled copies whose sizes s1 and s2 scale_image decides
Forward(sz, augment, s1, s2) ==
    /\ pc = "ready"
    /\ calls < MaxCalls
    /\ calls' = calls + 1
    /\ pc' = "call"
    /\ err' = ""
    /\ fw' = Frame(sz)
    /\ pending' = IF augment THEN <<s1, s2>> ELSE <<>>
    /\ dec' = NoDec
    /\ UNCHANGED <<cfg, classesArg, lastSpec, buildVars, selfVars, det, headIn, result>>

\* forward_once returns x, which the observed entry leaves with; an
\* augmented call goes on with its next copy
ForwardReturn ==
    /\ pc = "call"
    /\ fw.i = Len(self_model)
    /\ result' = fw.x
    /\ dec' = NoDec
    /\ IF pending # <<>>
       THEN /\ fw' = Frame(Head(pending))
            /\ pending' = Tail(pending)
            /\ UNCHANGED pc
       ELSE /\ pc' = "ready"
            /\ UNCHANGED <<fw, pending>>
    /\ UNCHANGED <<err, cfg, classesArg, lastSpec, buildVars, selfVars, det, headIn,
                   calls>>

(* ------------------- configurations given to the builder --------------- *)
FromInts == -3..2
FromLists ==
    {<<-1, b>> : b \in FromInts} \cup {<<a, b>> : a, b \in {-2, 0, 1}}
    \cup {<<-1, -2, 0>>, <<-1, 0, 1>>, <<-1, -2, -3>>}
Unit == <<1, 1>>
One == Frac(1, 1)

InitBuild ==
    /\ InitCommon
    /\ cfg = Cfg(1, Anchors2, One, One, 3)
    /\ classesArg = 0

NextBuild ==
    \/ YoloInit
    \/ \E k \in FromInts, c2 \in {8, NumOutputs(cfg)} :
          ParseLayer("int", <<k>>, 1, "Conv", c2, Unit)
    \/ \E k \in FromInts, m \in {"BatchNorm2d", "Maxpool", "Upsample"} :
          ParseLayer("int", <<k>>, 1, m, 0, Unit)
    \/ \E l \in FromLists : ParseLayer("list", l, 1, "Concat", 0, Unit)
    \/ ParseLayer("none", <<>>, 1, "Detect", 0, Unit)
    \/ \E l \in {<<-1, 0>>} : ParseLayer("list", l, 1, "Detect", 0, Unit)
    \/ ParseLayer("int", <<-1>>, 1, "Unknown", 0, Unit)
    \/ ParseReturn

SpecBuild == InitBuild /\ [][NextBuild]_vars

(* ------------------- the class-count override -------------------------- *)
InitOverride ==
    /\ InitCommon
    /\ cfg \in {Cfg(nc, Anchors2, One, One, 3) : nc \in {1, 2}}
    /\ classesArg \in {0, 1, 3}

NextOverride ==
    \/ YoloInit
    \/ \E k \in {-1, 0}, c2 \in {8, NumOutputs(cfg)} :
          ParseLayer("int", <<k>>, 1, "Conv", c2, Unit)
    \/ \E l \in {<<-1, 0>>} : ParseLayer("list", l, 1, "Concat", 0, Unit)
    \/ ParseLayer("none", <<>>, 1, "Detect", 0, Unit)
    \/ ParseReturn

SpecOverride == InitOverride /\ [][NextOverride]_vars

(* ------------------- construction: build, probe, strides --------------- *)
Halvings == {<<1, 1>>, <<2, 1>>, <<1, 2>>}

Init ==
    /\ InitCommon
    /\ cfg = Cfg(1, Anchors2, One, One, 3)
    /\ classesArg = 0

Next ==
    \/ YoloInit
    \/ \E k \in {-2, -1, 0}, c2 \in {8, NumOutputs(cfg)}, s \in Halvings :
          ParseLayer("int", <<k>>, 1, "Conv", c2, s)
    \/ \E k \in {-1, 0} : ParseLayer("int", <<k>>, 1, "BatchNorm2d", 0, Unit)
    \/ \E m \in {"Maxpool", "Upsample"} : ParseLayer("int", <<-1>>, 1, m, 0, <<2, 2>>)
    \/ \E l \in {<<-1, 0>>, <<-1, -2>>, <<0, 1>>, <<-2, -1, 0>>} :
          ParseLayer("list", l, 1, "Concat", 0, Unit)
    \/ ParseLayer("none", <<>>, 1, "Detect", 0, Unit)
    \/ \E l \in {<<-1, 0>>, <<-1, -2>>, <<-2, -1, 0>>} :
          ParseLayer("list", l, 1, "Detect", 0, Unit)
    \/ ParseLayer("int", <<-1>>, 1, "Unknown", 0, Unit)
    \/ ParseReturn
    \/ ProbeStart
    \/ ForwardStep({NoOb})
    \/ BuildStrides

Spec == Init /\ [][Next]_vars

(* --------------------- forward calls on a built network ---------------- *)
InputSizes == {<<4, 4>>, <<2, 4>>, <<4, 2>>}

NextCalls(obs, augments) ==
    \/ YoloInit
    \/ \E c2 \in {NumOutputs(cfg)}, s \in {<<1, 1>>, <<1, 2>>} :
          ParseLayer("int", <<-1>>, 1, "Conv", c2, s)
    \/ ParseLayer("none", <<>>, 1, "Detect", 0, Unit)
    \/ ParseReturn
    \/ ProbeStart
    \/ ForwardStep(obs)
    \/ BuildStrides
    \/ \E b \in BOOLEAN : SetTraining(b)
    \/ SetExport
    \/ \E sz \in InputSizes, augment \in augments :
          \E s1 \in InputSizes, s2 \in InputSizes : Forward(sz, augment, s1, s2)
    \/ ForwardReturn

SpecCalls == Init /\ [][NextCalls({NoOb}, BOOLEAN)]_vars

(* ------ single-scale calls, every sampled output entry observed -------- *)
\* every scale and anchor, every cell of the top-left 2 x 2 corner, every
\* pair of sampled raw values
DecodeObs ==
    {Ob(i, a, gy, gx, <<u, v, v, u>>) :
        i \in 1..2, a \in 1..2, gy \in 0..1, gx \in 0..1, u \in RawVals, v \in RawVals}

SpecDecode == Init /\ [][NextCalls(DecodeObs, {FALSE})]_vars

(* ======================================================================= *)
(* Properties                                                              *)
(* ======================================================================= *)
\* the recorded output channel count of layer k (k = -1: the input)
ChanOf(k) == channels[k + 2]

FromsValid(m) == \A p \in 1..Len(m.f.v) : RefersToBuilt(m.i, m.f.v[p])
ValidFroms(model) == \A j \in 1..Len(model) : FromsValid(model[j])

Building == pc \in {"parse", "built"}

\* C1: every Concat layer that parse_model builds from indices referring to
\* already-built layers records, as its output channel count, the sum of the
\* recorded output channel counts of the layers forward_once gathers for it.
C1_ConcatSumOfSources ==
    (Building /\ ValidFroms(layers)) =>
        \A j \in 1..Len(layers) :
            LET m == layers[j]
            IN (m.type = "Concat" /\ FromsValid(m)) =>
                   ChanOf(m.i) =
                       SeqSum([p \in 1..Len(m.f.v) |-> ChanOf(FwdLayer(m.i, m.f.v[p]))])

Count(s, v) == Cardinality({j \in 1..Len(s) : s[j] = v})

\* the non-sequential references (layer position, position in its from)
NonSeqRefs(model) ==
    {<<j, p>> \in (1..Len(model)) \X (1..4) : p <= Len(model[j].f.v) /\ model[j].f.v[p] # -1}

Ascending(s) == \A j \in 1..(Len(s) - 1) : s[j] <= s[j + 1]
StrictlyAscending(s) == \A j \in 1..(Len(s) - 1) : s[j] < s[j + 1]

\* the layers whose from names layer v non-sequentially
Referrers(model, v) ==
    {j \in 1..Len(model) :
        \E p \in 1..Len(model[j].f.v) :
            model[j].f.v[p] # -1 /\ FwdLayer(model[j].i, model[j].f.v[p]) = v}

\* C2 as stated: the returned save list is strictly increasing, so that a
\* layer index referenced non-sequentially by two or more later layers
\* appears in it exactly once.
C2_SaveDeduplicated ==
    (pc = "built" /\ ValidFroms(self_model)) =>
        \A v \in 0..MaxLayers :
            Cardinality(Referrers(self_model, v)) >= 2 =>
                (Count(self_save, v) = 1 /\ StrictlyAscending(self_save))

\* C2, amended: the returned save list is ascending with duplicates kept: it
\* holds one entry x mod i for every non-sequential from index x of every
\* layer i, and so holds a layer once for each reference to it; when every
\* from refers to an already-built layer, x mod i is the layer that
\* forward_once reads for x.
C2_SaveAscendingWithDuplicates ==
    pc = "built" =>
        /\ Ascending(self_save)
        /\ Len(self_save) = Cardinality(NonSeqRefs(self_model))
        /\ \A v \in -1..MaxLayers :
              Count(self_save, v) =
                  Cardinality({r \in NonSeqRefs(self_model) :
                                  self_model[r[1]].f.v[r[2]] % self_model[r[1]].i = v})
        /\ ValidFroms(self_model) =>
              \A v \in 0..MaxLayers :
                  Count(self_save, v) =
                      Cardinality({r \in NonSeqRefs(self_model) :
                          FwdLayer(self_model[r[1]].i, self_model[r[1]].f.v[r[2]]) = v})

\* a layer referenced non-sequentially by two later layers, out of order
C2_Witness ==
    /\ pc = "built"
    /\ Len(self_save) = 3
    /\ Count(self_save, 0) = 2
    /\ save # self_save

\* C3: parse_model fails whenever a from index k of layer i has k >= i, so no
\* layer is ever built with such an index.
C3_ForwardReferenceFails ==
    Building =>
        \A j \in 1..Len(layers) :
            \A p \in 1..Len(layers[j].f.v) : layers[j].f.v[p] < layers[j].i

\* C4: with the classes argument set, the detection-output width parse_model
\* works with is numAnchorsPerScale * (classes + 5).
C4_OverrideSetsWidth ==
    (Building /\ classesArg # 0) =>
        num_outputs = NumAnchors(cfg.anchors) * (classesArg + OutputsPerBox)

\* C8: once the builder has read an unknown module kind, construction has
\* failed with the error raised by the build, nothing was returned and the
\* YOLO object has no model, save list or strides; no layer of unknown kind
\* is ever part of a graph.
C8_UnknownKindFailsBuild ==
    /\ (lastSpec.i >= 0 /\ lastSpec.ls.module \notin KnownModules) =>
          /\ pc = "failed"
          /\ err = "NameError"
          /\ layers = <<>>
          /\ ~has_model
          /\ self_model = <<>>
          /\ self_save = <<>>
          /\ self_stride = <<>>
          /\ det.stride = <<>>
    /\ \A j \in 1..Len(layers) : layers[j].type \in KnownModules
    /\ \A j \in 1..Len(self_model) : self_model[j].type \in KnownModules

\* the unknown kind comes after two layers have been built
C8_Witness ==
    /\ lastSpec.i = 2
    /\ lastSpec.ls.module = "Unknown"
    /\ pc = "failed"

\* the configured pixel anchor a of scale i, as (width, height)
PixelAnchor(i, a) == <<Frac(cfg.anchors[i][2 * a - 1], 1), Frac(cfg.anchors[i][2 * a], 1)>>

ScalesAgree ==
    /\ Len(det.stride) = det.nl
    /\ Len(self_stride) = det.nl
    /\ Len(det.anchors) = det.nl
    /\ Len(cfg.anchors) = det.nl
    /\ Len(headIn.items) = det.nl

AnchorsInGridUnits ==
    \A i \in 1..det.nl : \A a \in 1..det.num_anchors :
        /\ FEq(det.anchors[i][a][1], FDiv(PixelAnchor(i, a)[1], det.stride[i]))
        /\ FEq(det.anchors[i][a][2], FDiv(PixelAnchor(i, a)[2], det.stride[i]))

\* C5 as stated: after construction the strides, the detection scales and
\* the anchor sets are equally many, stride i is 64 over the height of the
\* i-th feature map the probe fed to the detection head, and the stored
\* anchors of scale i are the pixel anchors over stride i.
C5_StrideFromHeight ==
    pc = "ready" =>
        /\ ScalesAgree
        /\ \A i \in 1..det.nl :
              FEq(det.stride[i], Frac(ProbeSize, headIn.items[i].shape[3]))
        /\ AnchorsInGridUnits

\* C5, amended: as above, with stride i being 64 over the width of the i-th
\* feature map (dimension -2 of the head's permuted output), which is 64
\* over its height when the feature map is square.
C5_StrideFromWidth ==
    pc = "ready" =>
        /\ ScalesAgree
        /\ self_stride = det.stride
        /\ \A i \in 1..det.nl :
              /\ FEq(det.stride[i], Frac(ProbeSize, headIn.items[i].shape[4]))
              /\ headIn.items[i].shape[3] = headIn.items[i].shape[4] =>
                    FEq(det.stride[i], Frac(ProbeSize, headIn.items[i].shape[3]))
        /\ AnchorsInGridUnits

\* two scales of different stride, one of them fed a non-square feature map
C5_Witness ==
    /\ pc = "ready"
    /\ ~FEq(det.stride[1], det.stride[2])
    /\ \E i \in 1..det.nl : headIn.items[i].shape[3] # headIn.items[i].shape[4]

\* C7: in forward_once over a graph whose from indices all refer to
\* already-built layers, slot k of the output buffer holds layer k's output
\* exactly when k is in the save list and is None otherwise, and every slot a
\* layer reads for a non-sequential input holds the output of the layer the
\* index refers to.
C7_ReadsFindRetainedOutputs ==
    ValidFroms(self_model) =>
        /\ \A k \in 1..Len(fw.y) :
              /\ (fw.y[k] # NoneV) <=> InSave(k - 1, self_save)
              /\ fw.y[k].k = "T" => fw.y[k].src = k - 1
        /\ \A p \in 1..Len(fw.reads) :
              /\ fw.reads[p].slot # NoneV
              /\ fw.reads[p].slot.k = "T"
              /\ fw.reads[p].slot.src = FwdLayer(fw.reads[p].layer, fw.reads[p].j)

\* a layer gathers a relative and an absolute index while another slot of
\* the buffer has been discarded
C7_Witness ==
    /\ ValidFroms(self_model)
    /\ Len(fw.reads) = 2
    /\ fw.reads[1].j < -1
    /\ fw.reads[2].j >= 0
    /\ \E k \in 1..Len(fw.y) : fw.y[k] = NoneV

\* the step is a call of Detect.forward, and the call returned
HeadStep ==
    /\ pc \in {"probe", "call"}
    /\ fw.i < Len(self_model)
    /\ self_model[fw.i + 1].type = "Detect"
HeadCall == HeadStep /\ fw'.i = fw.i + 1

\* the (height, width) of a cached grid, and of the feature map of scale i
\* the call was given
SizeOf(g) == PySlice(g.shape, 2, 4)
FedSize(i) == <<headIn'.items[i].shape[3], headIn'.items[i].shape[4]>>

\* C6: over any sequence of Detect.forward calls, an inference-mode call
\* leaves the cached grid of every scale i with the call's (height, width)
\* and entry (y, x) holding (x, y), leaves it unchanged when the cached size
\* was already that size, and recomputes it exactly when the size differed;
\* a training-mode call, and every step that is not a call of the head,
\* leaves the cache untouched.
C6_GridCache ==
    [][ IF HeadCall
        THEN \A i \in 1..det.nl :
                IF det'.training
                THEN det'.grid[i] = det.grid[i] /\ det'.makes[i] = det.makes[i]
                ELSE /\ SizeOf(det'.grid[i]) = FedSize(i)
                     /\ \A y \in 0..(FedSize(i)[1] - 1) : \A x \in 0..(FedSize(i)[2] - 1) :
                           det'.grid[i].cells[y][x] = <<x, y>>
                     /\ SizeOf(det.grid[i]) = FedSize(i) =>
                           (det'.grid[i] = det.grid[i] /\ det'.makes[i] = det.makes[i])
                     /\ SizeOf(det.grid[i]) # FedSize(i) =>
                           det'.makes[i] = det.makes[i] + 1
        ELSE (~HeadStep /\ pc \in {"probe", "ready", "call"}) =>
                (det'.grid = det.grid /\ det'.makes = det.makes)
      ]_vars

\* one augmented inference call has returned: of its three passes over the
\* head, two recomputed the grid of scale 1 and one reused it
C6_Witness ==
    /\ pc = "ready"
    /\ calls = 1
    /\ ~det.training
    /\ result.k = "P"
    /\ det.makes[1] = 2

\* C9: once construction has succeeded, no step of any forward call, in
\* either mode, augmented or not, on any input size, changes the strides, the
\* stored anchors or the save list; the strides are assigned in one step of
\* construction, and from then on neither they nor the anchors change.
C9_FixedAfterConstruction ==
    [][ /\ pc \in {"ready", "call"} =>
              /\ det'.stride = det.stride
              /\ det'.anchors = det.anchors
              /\ self_stride' = self_stride
              /\ self_save' = self_save
        /\ det.stride # <<>> => (det'.stride = det.stride /\ det'.anchors = det.anchors)
        /\ det'.stride # det.stride => (pc = "probe" /\ det.stride = <<>>)
      ]_vars

\* two calls have returned, the last in training mode, after an inference
\* call built a grid, on a network whose second stride is not 1
C9_Witness ==
    /\ pc = "ready"
    /\ calls >= 2
    /\ det.training
    /\ result.k = "L"
    /\ det.makes[1] >= 1
    /\ ~FEq(det.stride[2], One)

\* the interval stride * [g - 1/2, g + 3/2] around cell index g
CellLow(st, g) == FMul(st, FAdd(Frac(g, 1), MinusHalf))
CellHigh(st, g) == FMul(st, FAdd(Frac(g, 1), Frac(3, 2)))
Zero == Frac(0, 1)
Four == Frac(4, 1)

\* C10: in inference mode every observed entry of the decoded output, at
\* scale i, anchor a and cell (gx, gy), has its centre (x, y) within
\* stride_i * [-1/2, 3/2] of the cell's pixel origin (stride_i * gx,
\* stride_i * gy) and its (w, h) within [0, 4] times the configured pixel
\* (width, height) of anchor a of scale i.
C10_DecodeBounds ==
    dec.valid =>
        LET st == det.stride[dec.i]
            an == PixelAnchor(dec.i, dec.a)
        IN /\ FLe(CellLow(st, dec.gx), dec.x) /\ FLe(dec.x, CellHigh(st, dec.gx))
           /\ FLe(CellLow(st, dec.gy), dec.y) /\ FLe(dec.y, CellHigh(st, dec.gy))
           /\ FLe(Zero, dec.w) /\ FLe(dec.w, FMul(Four, an[1]))
           /\ FLe(Zero, dec.h) /\ FLe(dec.h, FMul(Four, an[2]))

\* an entry away from the origin cell, at a scale of stride 2, whose x and h
\* sit on their upper bounds and whose y and w on their lower bounds
C10_Witness ==
    /\ dec.valid
    /\ dec.gx = 1 /\ dec.gy = 0 /\ dec.a = 2
    /\ FEq(det.stride[dec.i], Two)
    /\ FEq(dec.x, CellHigh(det.stride[dec.i], dec.gx))
    /\ FEq(dec.y, CellLow(det.stride[dec.i], dec.gy))
    /\ FEq(dec.w, Zero)
    /\ FEq(dec.h, FMul(Four, PixelAnchor(dec.i, dec.a)[2]))

\* the channel count parse_model resolves for a layer with an integer from:
\* the input channel count a convolutional kind is constructed with, and
\* the count a default kind takes over as its recorded output
ResolvedChannels(m) == IF m.type \in ConvKinds THEN m.cin ELSE ChanOf(m.i)

\* C11: every convolutional-kind or default-kind layer whose single integer
\* from index refers to an already-built layer resolves, at build time, the
\* recorded output channel count of exactly the layer whose output
\* forward_once feeds into it; that layer is the index added to the save
\* list, and for from = -1 the count is the last ChannelList entry at the
\* time the layer is built.
C11_BuildAndForwardAgree ==
    (Building /\ ValidFroms(layers)) =>
        \A j \in 1..Len(layers) :
            LET m == layers[j]
                k == m.f.v[1]
            IN (m.type \in ConvKinds \cup {"Upsample"} /\ m.f.t = "int") =>
                   /\ ResolvedChannels(m) = ChanOf(FwdLayer(m.i, k))
                   /\ k # -1 => InSave(FwdLayer(m.i, k), save)
                   /\ k = -1 => ResolvedChannels(m) = channels[m.i + 1]

\* C12: every BatchNorm2d layer and every Maxpool layer whose from index (-1
\* or any other index of an already-built layer) is given records, as its
\* output channel count, the recorded output channel count of the layer the
\* from index refers to.
C12_ChannelsPassThrough ==
    (Building /\ ValidFroms(layers)) =>
        \A j \in 1..Len(layers) :
            LET m == layers[j]
            IN (m.type \in {"BatchNorm2d", "Maxpool"} /\ m.f.t = "int") =>
                   ChanOf(m.i) = ChanOf(FwdLayer(m.i, m.f.v[1]))

(* ------------------- repeat counts and the depth multiple -------------- *)
DepthMultiples == {Frac(1, 4), Frac(1, 2), Frac(1, 1), Frac(3, 2)}
Repeats == {0, 1, 2, 3, 5}

InitDepth ==
    /\ InitCommon
    /\ cfg \in {Cfg(1, Anchors2, dm, One, 3) : dm \in DepthMultiples}
    /\ classesArg = 0

NextDepth ==
    \/ YoloInit
    \/ \E n \in Repeats, m \in ConvKinds : ParseLayer("int", <<-1>>, n, m, 8, Unit)
    \/ \E n \in Repeats : ParseLayer("int", <<-1>>, n, "Maxpool", 0, Unit)
    \/ ParseReturn

SpecDepth == InitDepth /\ [][NextDepth]_vars

\* r is round(n / d), the nearest integer, a tie going to the even one
IsRound(r, n, d) ==
    LET gap == IF r * d >= n THEN r * d - n ELSE n - r * d
    IN 2 * gap < d \/ (2 * gap = d /\ r % 2 = 0)

\* e is the effective repeat count of a layer configured with repeat under
\* the depth multiple dm
IsEffective(e, repeat, dm) ==
    IF repeat > 1
    THEN \E r \in 0..(repeat * dm[1]) :
            IsRound(r, repeat * dm[1], dm[2]) /\ e = Max(r, 1)
    ELSE e = repeat

\* the layer parse_model built last, and the entry it was built from
LastBuilt == layers[Len(layers)]
JustBuilt == pc = "parse" /\ layers # <<>> /\ lastSpec.i = Len(layers) - 1

\* C13 as stated: every layer is built as exactly its effective repeat count
\* of stacked instances, the count being max(round(repeat * depth_multiple),
\* 1) for repeat > 1 and repeat itself for repeat 0 or 1; a BottleneckCSP
\* instead gets the count as a constructor argument and is built once.
C13_InstancesAreEffectiveCount ==
    JustBuilt =>
        IF LastBuilt.type = "BottleneckCSP"
        THEN /\ IsEffective(LastBuilt.csp_n, lastSpec.ls.number, cfg.depth_multiple)
             /\ Instances(LastBuilt) = 1
        ELSE IsEffective(Instances(LastBuilt), lastSpec.ls.number, cfg.depth_multiple)

\* C13, amended: as above, except that a layer other than BottleneckCSP
\* whose effective repeat count is 0 is built as one instance.
C13_InstancesAtLeastOne ==
    JustBuilt =>
        IF LastBuilt.type = "BottleneckCSP"
        THEN /\ IsEffective(LastBuilt.csp_n, lastSpec.ls.number, cfg.depth_multiple)
             /\ Instances(LastBuilt) = 1
        ELSE \E e \in 0..(2 * lastSpec.ls.number + 1) :
                /\ IsEffective(e, lastSpec.ls.number, cfg.depth_multiple)
                /\ Instances(LastBuilt) = Max(e, 1)

\* under the depth multiple 1/2: a Conv of repeat 3 stacked twice, a Maxpool
\* of repeat 0 built once, and a BottleneckCSP of repeat 5 built once with
\* the count 2 as its argument
C13_Witness ==
    /\ JustBuilt
    /\ cfg.depth_multiple = Frac(1, 2)
    /\ Len(layers) = 3
    /\ layers[1].type = "Conv" /\ Instances(layers[1]) = 2
    /\ layers[2].type = "Maxpool" /\ layers[2].number = 0
    /\ LastBuilt.type = "BottleneckCSP"
    /\ lastSpec.ls.number = 5 /\ LastBuilt.csp_n = 2

(* --------------- the detection head's discovered sources --------------- *)
InputChannels == {3, NumOutputs(Cfg(1, Anchors2, One, One, 3))}

InitHead ==
    /\ InitCommon
    /\ cfg \in {Cfg(1, Anchors2, One, One, ch) : ch \in InputChannels}
    /\ classesArg = 0

NextHead ==
    \/ YoloInit
    \/ \E c2 \in {8, 16, NumOutputs(cfg)} : ParseLayer("int", <<-1>>, 1, "Conv", c2, Unit)
    \/ \E m \in {"BatchNorm2d", "Maxpool"} : ParseLayer("int", <<-1>>, 1, m, 0, Unit)
    \/ ParseLayer("none", <<>>, 1, "Detect", 0, Unit)
    \/ ParseReturn

SpecHead == InitHead /\ [][NextHead]_vars

\* the prior layers of layer i recorded with the detection-output width
WidthProducers(i) == {k \in 0..(i - 1) : ChanOf(k) = num_outputs}

\* C14: a detection layer that follows other layers and whose from is unset
\* gets as its from the list,
\* latest layer first, of exactly the prior layers whose recorded output
\* channel count is the detection-output width, the immediately preceding
\* layer written as -1 and every other as its index; no entry refers to
\* anything else, whatever the input channel count.
C14_DiscoversWidthProducers ==
    (JustBuilt /\ LastBuilt.type = "Detect" /\ LastBuilt.i > 0 /\ lastSpec.ls.f = FNone) =>
        LET i == LastBuilt.i
            f == LastBuilt.f.v
        IN /\ LastBuilt.f.t = "list"
           /\ \A p \in 1..Len(f) :
                 /\ FwdLayer(i, f[p]) \in WidthProducers(i)
                 /\ f[p] = (IF FwdLayer(i, f[p]) = i - 1 THEN -1 ELSE FwdLayer(i, f[p]))
           /\ \A k \in WidthProducers(i) : \E p \in 1..Len(f) : FwdLayer(i, f[p]) = k
           /\ \A p \in 1..Len(f) : \A q \in 1..Len(f) :
                 p < q => FwdLayer(i, f[p]) > FwdLayer(i, f[q])

====
